---- MODULE Spec2Model ----
(***************************************************************************)
(* Model of the offer-clipping client of sprouts_coupons:                  *)
(*   client.py  SproutsClient._graphql_get, _get_available_offer,          *)
(*              clip_coupon                                                *)
(*   main.py    clip_all_coupons                                           *)
(* The server is the environment: every reply to a request is drawn from a *)
(* bounded set of HTTP responses (status + decoded JSON body).             *)
(***************************************************************************)
EXTENDS Integers, Sequences, FiniteSets, TLC

(***************************************************************************)
(* Bounds of the model.                                                    *)
(***************************************************************************)
MaxOffers == 2
MaxItems == 2

(***************************************************************************)
(* Program constants.                                                      *)
(***************************************************************************)
GET_AVAILABLE_OFFER_HASH == "b839689921f13df9ad4424b4cff9820fcbf25dcc5a2f1a73bb0ce5ebf3442720"
CLIP_COUPON_HASH == "e8f419c92ab3413a7cfd9d219ad6217255479a69451177a5a8b2d0d40fe448f2"
DEFAULT_ITEM_ID == "000000000001"
DEFAULT_ZONE_ID == "981"
DEFAULT_POSTAL_CODE == "95126"
PERSISTED_QUERY_VERSION == 1

(***************************************************************************)
(* JSON values.  A value is a record with a type tag t; b, n and s carry   *)
(* a boolean, a number (or the size of a container whose contents the code *)
(* never inspects) and a string.  "absent" stands for a key that is not in *)
(* the enclosing mapping; it is never a value the code holds.              *)
(***************************************************************************)
Leaf(t, b, n, s) == [t |-> t, b |-> b, n |-> n, s |-> s]
Absent == Leaf("absent", FALSE, 0, "")
Null == Leaf("null", FALSE, 0, "")
JBool(b) == Leaf("bool", b, 0, "")
JInt(n) == Leaf("int", FALSE, n, "")
JStr(s) == Leaf("str", FALSE, 0, s)
JMap(n) == Leaf("map", FALSE, n, "")
JList(n) == Leaf("list", FALSE, n, "")

\* faulty variant of Truthy: every container counts as true, even an empty one
M_Truthy_ContainersTrue(v) ==
    CASE v.t \in {"absent", "null"} -> FALSE
      [] v.t = "bool" -> v.b
      [] v.t = "int" -> v.n # 0
      [] v.t = "str" -> v.s # ""
      [] OTHER -> TRUE

\* Python truthiness of a scalar or opaque container: bool(v)
Truthy(v) ==
    CASE v.t \in {"absent", "null"} -> FALSE
      [] v.t = "bool" -> v.b
      [] v.t = "int" -> v.n # 0
      [] v.t = "str" -> v.s # ""
      [] OTHER -> v.n > 0

\* faulty variant of DictGet: the default also replaces a null
M_DictGet_NullAsAbsent(v, default) == IF v.t \in {"absent", "null"} THEN default ELSE v
\* dict.get(key, default): the default replaces an absent key only
DictGet(v, default) == IF v.t = "absent" THEN default ELSE v

Digit(d) ==
    CASE d = 0 -> "0" [] d = 1 -> "1" [] d = 2 -> "2" [] d = 3 -> "3"
      [] d = 4 -> "4" [] d = 5 -> "5" [] d = 6 -> "6" [] d = 7 -> "7"
      [] d = 8 -> "8" [] OTHER -> "9"

RECURSIVE IntToStr(_)
IntToStr(n) == IF n < 10 THEN Digit(n) ELSE IntToStr(n \div 10) \o Digit(n % 10)

\* Python str(v)
PyStr(v) ==
    CASE v.t = "str" -> v.s
      [] v.t = "int" -> IntToStr(v.n)
      [] v.t = "bool" -> (IF v.b THEN "True" ELSE "False")
      [] v.t = "map" -> "{...}"
      [] v.t = "list" -> "[...]"
      [] OTHER -> "None"

(***************************************************************************)
(* The detail result: data.getAvailableOffer and its items list.           *)
(***************************************************************************)
LegacyIds == {Absent, Null, JStr(""), JStr("999"), JInt(0), JInt(999)}

\* an element of the items list: a mapping (with or without legacyId) or a string
MapItem(lid) == [t |-> "map", legacyId |-> lid]
StrItem == [t |-> "str", legacyId |-> Absent]
ItemValues == {MapItem(lid) : lid \in LegacyIds} \cup {StrItem}

SeqsUpTo(S, n) == UNION {[1..k -> S] : k \in 0..n}

\* the items lists: any first item; the later items, which the code never
\* reads, are with or without a legacyId
LaterItemValues == {MapItem(JStr("999")), MapItem(Absent)}
ItemLists ==
    {<<>>} \cup {<<first>> \o rest :
                    first \in ItemValues, rest \in SeqsUpTo(LaterItemValues, MaxItems - 1)}

\* the value under "items": elems are the elements of a list, n the size of
\* any other container or the value of a number
ItemsVal(t, elems, n) == [t |-> t, elems |-> elems, n |-> n]
ItemsAbsent == ItemsVal("absent", <<>>, 0)
ItemsNull == ItemsVal("null", <<>>, 0)
ItemsList(elems) == ItemsVal("list", elems, 0)
ItemsValues ==
    {ItemsAbsent, ItemsNull, ItemsVal("map", <<>>, 1), ItemsVal("int", <<>>, 0)}
        \cup {ItemsList(e) : e \in ItemLists}

ItemsTruthy(v) ==
    CASE v.t \in {"absent", "null"} -> FALSE
      [] v.t = "list" -> Len(v.elems) > 0
      [] OTHER -> v.n > 0

\* the value under "getAvailableOffer": other = the mapping has keys besides items
OfferData(t, items, other, n) == [t |-> t, items |-> items, other |-> other, n |-> n]
OfferDataAbsent == OfferData("absent", ItemsAbsent, FALSE, 0)
OfferDataNone == OfferData("null", ItemsAbsent, FALSE, 0)
OfferDataMap(items, other) == OfferData("map", items, other, 0)
OfferDataValues ==
    {OfferDataAbsent, OfferDataNone,
     OfferData("list", ItemsAbsent, FALSE, 1), OfferData("list", ItemsAbsent, FALSE, 0),
     OfferData("str", ItemsAbsent, FALSE, 1),
     OfferDataMap(ItemsAbsent, FALSE), OfferDataMap(ItemsAbsent, TRUE)}
        \cup {OfferDataMap(i, FALSE) : i \in ItemsValues \ {ItemsAbsent}}

\* faulty variant of OfferDataTruthy: every mapping counts as true, even {}
M_OfferDataTruthy_MapsTrue(v) ==
    CASE v.t \in {"absent", "null"} -> FALSE
      [] v.t = "map" -> TRUE
      [] OTHER -> v.n > 0

OfferDataTruthy(v) ==
    CASE v.t \in {"absent", "null"} -> FALSE
      [] v.t = "map" -> (v.items.t # "absent" \/ v.other)
      [] OTHER -> v.n > 0

(***************************************************************************)
(* HTTP responses: a status code and the body response.json() decodes.     *)
(***************************************************************************)
\* the value under "errors": n = length of the list, first = type of its
\* first entry, message = the first entry's "message"
ErrorsVal(t, n, first, message) == [t |-> t, n |-> n, first |-> first, message |-> message]
ErrorsAbsent == ErrorsVal("absent", 0, "none", Absent)
ErrorsValues ==
    {ErrorsVal("null", 0, "none", Absent),
     ErrorsVal("list", 0, "none", Absent),
     ErrorsVal("list", 1, "str", Absent),
     ErrorsVal("list", 1, "map", Absent),
     ErrorsVal("list", 1, "map", JStr("Offer not found"))}

\* the value under "data"
DataVal(t, gao, ccv2) == [t |-> t, getAvailableOffer |-> gao, clipCouponV2 |-> ccv2]
DataAbsent == DataVal("absent", OfferDataAbsent, Absent)
DataNull == DataVal("null", OfferDataAbsent, Absent)
DataStr == DataVal("str", OfferDataAbsent, Absent)
DataMap(gao, ccv2) == DataVal("map", gao, ccv2)
EmptyDict == DataMap(OfferDataAbsent, Absent)

ClipResults == {Absent, Null, JBool(FALSE), JBool(TRUE), JStr(""), JMap(0), JMap(1), JList(0)}

\* the decoded body; "invalid" is a body that is not JSON
Body(t, errors, data) == [t |-> t, errors |-> errors, data |-> data]
BodyMap(errors, data) == Body("map", errors, data)
NonMapBodies == {Body(t, ErrorsAbsent, DataAbsent) : t \in {"invalid", "null", "list"}}
ErrorBodies == {BodyMap(e, DataNull) : e \in ErrorsValues}
DetailBodies ==
    NonMapBodies \cup ErrorBodies
        \cup {BodyMap(ErrorsAbsent, d) : d \in {DataAbsent, DataNull, DataStr}}
        \cup {BodyMap(ErrorsAbsent, DataMap(od, Absent)) : od \in OfferDataValues}
ClipBodies ==
    NonMapBodies \cup ErrorBodies
        \cup {BodyMap(ErrorsAbsent, d) : d \in {DataAbsent, DataNull, DataStr}}
        \cup {BodyMap(ErrorsAbsent, DataMap(OfferDataAbsent, c)) : c \in ClipResults}

Response(status, body) == [status |-> status, body |-> body]
HTTP_OK == 200
HTTP_SERVER_ERROR == 500
DetailResponses ==
    {Response(HTTP_OK, b) : b \in DetailBodies}
        \cup {Response(HTTP_SERVER_ERROR, b) :
                b \in {Body("invalid", ErrorsAbsent, DataAbsent),
                       BodyMap(ErrorsAbsent,
                               DataMap(OfferDataMap(ItemsList(<<MapItem(JStr("999"))>>), FALSE),
                                       Absent))}}
ClipResponses ==
    {Response(HTTP_OK, b) : b \in ClipBodies}
        \cup {Response(HTTP_SERVER_ERROR, b) :
                b \in {Body("invalid", ErrorsAbsent, DataAbsent),
                       BodyMap(ErrorsAbsent, DataMap(OfferDataAbsent, JMap(1)))}}

(***************************************************************************)
(* SproutsClient._graphql_get, from the response on.  The result is either *)
(* a raised exception (exc, msg) or the returned body (val).               *)
(***************************************************************************)
Raise(exc, msg) == [exc |-> exc, msg |-> msg, val |-> Body("null", ErrorsAbsent, DataAbsent)]
Return(body) == [exc |-> "none", msg |-> "", val |-> body]

\* faulty variant of graphql_get: the status of the response is not looked at
M_graphql_get_IgnoresStatus(response) ==
    LET data == response.body
        errors == data.errors
    IN  IF data.t = "invalid" THEN Raise("JSONDecodeError", "")
        ELSE IF data.t = "null" THEN Raise("TypeError", "")
        ELSE IF data.t = "map" /\ errors.t # "absent" THEN
            IF errors.t # "list" THEN Raise("TypeError", "")
            ELSE IF errors.n = 0 THEN Raise("IndexError", "")
            ELSE IF errors.first # "map" THEN Raise("AttributeError", "")
            ELSE Raise("RuntimeError",
                       "GraphQL error: " \o PyStr(DictGet(errors.message, JStr("Unknown error"))))
        ELSE Return(data)
graphql_get(response) ==
    LET data == response.body
        errors == data.errors
    IN  IF response.status >= 400 THEN Raise("HTTPError", "")
        ELSE IF data.t = "invalid" THEN Raise("JSONDecodeError", "")
        ELSE IF data.t = "null" THEN Raise("TypeError", "")
        ELSE IF data.t = "map" /\ errors.t # "absent" THEN
            IF errors.t # "list" THEN Raise("TypeError", "")
            ELSE IF errors.n = 0 THEN Raise("IndexError", "")
            ELSE IF errors.first # "map" THEN Raise("AttributeError", "")
            ELSE Raise("RuntimeError",
                       "GraphQL error: " \o PyStr(DictGet(errors.message, JStr("Unknown error"))))
        ELSE Return(data)

(***************************************************************************)
(* SproutsClient._get_available_offer, from the response on: the detail    *)
(* result, or None for any exception and for a falsy getAvailableOffer.    *)
(***************************************************************************)
\* faulty variant of get_available_offer: an exception yields an empty-looking
\* detail result instead of None
M_get_available_offer_SwallowsError(response) ==
    LET r == graphql_get(response)
        data == r.val
        inner == DictGet(data.data, EmptyDict)
        offer_data == DictGet(inner.getAvailableOffer, OfferDataNone)
    IN  IF r.exc # "none" THEN OfferDataMap(ItemsAbsent, TRUE)
        ELSE IF data.t # "map" THEN OfferDataNone
        ELSE IF inner.t # "map" THEN OfferDataNone
        ELSE IF ~OfferDataTruthy(offer_data) THEN OfferDataNone
        ELSE offer_data

get_available_offer(response) ==
    LET r == graphql_get(response)
        data == r.val
        inner == DictGet(data.data, EmptyDict)
        offer_data == DictGet(inner.getAvailableOffer, OfferDataNone)
    IN  IF r.exc # "none" THEN OfferDataNone
        ELSE IF data.t # "map" THEN OfferDataNone
        ELSE IF inner.t # "map" THEN OfferDataNone
        ELSE IF ~OfferDataTruthy(offer_data) THEN OfferDataNone
        ELSE offer_data

(***************************************************************************)
(* Offers and the session (models.py).                                     *)
(***************************************************************************)
Offer(offer_id, offer_request_key, is_clipped) ==
    [id |-> "id-" \o offer_id, offer_id |-> offer_id, coupon_id |-> "c-" \o offer_id,
     offer_request_key |-> offer_request_key, name |-> "Save $1 on Bananas",
     description |-> "", expires_on |-> "", is_clipped |-> is_clipped,
     image_url |-> Null]
OfferValues ==
    {Offer(k[1], k[2], c) : k \in {<<"42", "key1">>, <<"", "">>}, c \in BOOLEAN}

SessionInfo(shop_id) ==
    [cookies |-> [sid |-> "abc"], shop_id |-> shop_id, user_name |-> "", store_name |-> ""]
ShopIds == {"S1", "S2"}

\* uuid.uuid4(): some fresh identifier
PageViewIds == {"uuid-a", "uuid-b"}

(***************************************************************************)
(* Requests: what _graphql_get puts on the wire (client.py 55-68).         *)
(***************************************************************************)
GRAPHQL_ENDPOINT == "https://shop.sprouts.com/graphql"

\* url is the address the query string is appended to
Request(operation_name, variables, query_hash) ==
    [url |-> GRAPHQL_ENDPOINT,
     operationName |-> operation_name, variables |-> variables,
     extensions |-> [persistedQuery |->
                        [version |-> PERSISTED_QUERY_VERSION, sha256Hash |-> query_hash]]]

\* _get_available_offer, up to the call of _graphql_get
get_available_offer_request(offer, sess) ==
    Request("GetAvailableOffer",
            [shopId |-> sess.shop_id, zoneId |-> DEFAULT_ZONE_ID,
             postalCode |-> DEFAULT_POSTAL_CODE, legacyOfferId |-> offer.offer_id],
            GET_AVAILABLE_OFFER_HASH)

\* faulty variant of clip_coupon_request: the two halves of the offer reference swapped
M_clip_coupon_request_SwappedReference(offer, sess, item_id, page_view_id) ==
    Request("ClipCoupon",
            [itemId |-> PyStr(item_id), shopId |-> sess.shop_id, fetchRelatedItems |-> TRUE,
             trackingParams |->
                [pageType |-> Null, pageValue |-> Null, pageViewId |-> page_view_id,
                 pageViewIdV2 |-> page_view_id, sourceType |-> "shop_content_page",
                 sourceValue |-> "loyalty_offer_items", rowPosition |-> Null,
                 candidateId |-> Null, eligibleId |-> Null],
             offerReference |-> offer.offer_id \o "/" \o offer.offer_request_key],
            CLIP_COUPON_HASH)

\* clip_coupon, the variables of the ClipCoupon call
clip_coupon_request(offer, sess, item_id, page_view_id) ==
    Request("ClipCoupon",
            [itemId |-> PyStr(item_id), shopId |-> sess.shop_id, fetchRelatedItems |-> TRUE,
             trackingParams |->
                [pageType |-> Null, pageValue |-> Null, pageViewId |-> page_view_id,
                 pageViewIdV2 |-> page_view_id, sourceType |-> "shop_content_page",
                 sourceValue |-> "loyalty_offer_items", rowPosition |-> Null,
                 candidateId |-> Null, eligibleId |-> Null],
             offerReference |-> offer.offer_request_key \o "/" \o offer.offer_id],
            CLIP_COUPON_HASH)

(***************************************************************************)
(* clip_coupon, step by step.                                              *)
(***************************************************************************)
\* faulty variant of already_clipped: no short-circuit
M_already_clipped_Never(offer) == FALSE

\* faulty variant of already_clipped: the test is inverted
M_already_clipped_Inverted(offer) == ~offer.is_clipped

\* the short-circuit at entry
already_clipped(offer) == offer.is_clipped

\* item-id resolution on a truthy detail result: an exception, no item id
\* (found = FALSE), or the item id
ItemRaise(exc) == [exc |-> exc, found |-> FALSE, item_id |-> Null]
ItemNone == [exc |-> "none", found |-> FALSE, item_id |-> Null]
ItemId(v) == [exc |-> "none", found |-> TRUE, item_id |-> v]

\* faulty variant of resolve_item_id: no default item id for an empty items list
M_resolve_item_id_NoFallback(offer_data) ==
    LET items == DictGet(offer_data.items, ItemsList(<<>>))
    IN  IF offer_data.t # "map" THEN ItemRaise("AttributeError")
        ELSE IF ~ItemsTruthy(items) THEN ItemNone
        ELSE IF items.t = "map" THEN ItemRaise("KeyError")
        ELSE IF items.t # "list" THEN ItemRaise("TypeError")
        ELSE IF items.elems[1].t # "map" THEN ItemRaise("AttributeError")
        ELSE LET item_id == DictGet(items.elems[1].legacyId, Null)
             IN  IF ~Truthy(item_id) THEN ItemNone ELSE ItemId(item_id)

\* faulty variant of resolve_item_id: the first item that has a truthy legacyId is used
M_resolve_item_id_ScansItems(offer_data) ==
    LET items == DictGet(offer_data.items, ItemsList(<<>>))
        Usable == {k \in 1..Len(items.elems) :
                      items.elems[k].t = "map" /\ Truthy(items.elems[k].legacyId)}
    IN  IF offer_data.t # "map" THEN ItemRaise("AttributeError")
        ELSE IF ~ItemsTruthy(items) THEN ItemId(JStr(DEFAULT_ITEM_ID))
        ELSE IF items.t = "map" THEN ItemRaise("KeyError")
        ELSE IF items.t # "list" THEN ItemRaise("TypeError")
        ELSE IF items.elems[1].t # "map" THEN ItemRaise("AttributeError")
        ELSE IF Usable = {} THEN ItemNone
        ELSE ItemId(items.elems[CHOOSE k \in Usable : \A j \in Usable : k <= j].legacyId)

\* faulty variant of resolve_item_id: only a missing or null legacyId is refused
M_resolve_item_id_NoneOnly(offer_data) ==
    LET items == DictGet(offer_data.items, ItemsList(<<>>))
    IN  IF offer_data.t # "map" THEN ItemRaise("AttributeError")
        ELSE IF ~ItemsTruthy(items) THEN ItemId(JStr(DEFAULT_ITEM_ID))
        ELSE IF items.t = "map" THEN ItemRaise("KeyError")
        ELSE IF items.t # "list" THEN ItemRaise("TypeError")
        ELSE IF items.elems[1].t # "map" THEN ItemRaise("AttributeError")
        ELSE LET item_id == DictGet(items.elems[1].legacyId, Null)
             IN  IF item_id.t = "null" THEN ItemNone ELSE ItemId(item_id)
resolve_item_id(offer_data) ==
    LET items == DictGet(offer_data.items, ItemsList(<<>>))
    IN  IF offer_data.t # "map" THEN ItemRaise("AttributeError")
        ELSE IF ~ItemsTruthy(items) THEN ItemId(JStr(DEFAULT_ITEM_ID))
        ELSE IF items.t = "map" THEN ItemRaise("KeyError")
        ELSE IF items.t # "list" THEN ItemRaise("TypeError")
        ELSE IF items.elems[1].t # "map" THEN ItemRaise("AttributeError")
        ELSE LET item_id == DictGet(items.elems[1].legacyId, Null)
             IN  IF ~Truthy(item_id) THEN ItemNone ELSE ItemId(item_id)

\* faulty variant of clip_result: "is not None" in place of truthiness
M_clip_result_NotNone(response) ==
    LET r == graphql_get(response)
        data == r.val
        inner == DictGet(data.data, EmptyDict)
    IN  IF r.exc # "none" THEN FALSE
        ELSE IF data.t # "map" THEN FALSE
        ELSE IF inner.t # "map" THEN FALSE
        ELSE DictGet(inner.clipCouponV2, Null).t # "null"

\* the outcome of the ClipCoupon call: True / False
clip_result(response) ==
    LET r == graphql_get(response)
        data == r.val
        inner == DictGet(data.data, EmptyDict)
    IN  IF r.exc # "none" THEN FALSE
        ELSE IF data.t # "map" THEN FALSE
        ELSE IF inner.t # "map" THEN FALSE
        ELSE Truthy(DictGet(inner.clipCouponV2, Null))

(***************************************************************************)
(* The listing: the FindOffersForUserV2 body and its raw offer records.    *)
(* Identifier and display values are strings when they are present.        *)
(***************************************************************************)
MaxRecords == 2

\* str.strip(): leading and trailing whitespace removed
Whitespace == {" ", "\t", "\n"}

RECURSIVE LStrip(_)
LStrip(s) == IF Len(s) > 0 /\ Head(s) \in Whitespace THEN LStrip(Tail(s)) ELSE s

RECURSIVE RStrip(_)
RStrip(s) ==
    IF Len(s) > 0 /\ SubSeq(s, Len(s), Len(s)) \in Whitespace
    THEN RStrip(SubSeq(s, 1, Len(s) - 1))
    ELSE s

\* faulty variant of PyStrip: only leading whitespace is removed
M_PyStrip_LeftOnly(s) == LStrip(s)
PyStrip(s) == RStrip(LStrip(s))

\* an element of the sections list
Section(t, text) == [t |-> t, text |-> text]
MapSection(text) == Section("map", text)
NullSection == Section("null", Absent)

\* the value under "sections" (elems, n as for items)
SectionsVal(t, elems, n) == [t |-> t, elems |-> elems, n |-> n]
SectionsAbsent == SectionsVal("absent", <<>>, 0)
SectionsList(elems) == SectionsVal("list", elems, 0)
SectionsValues ==
    {SectionsAbsent, SectionsVal("null", <<>>, 0), SectionsVal("map", <<>>, 1)}
        \cup {SectionsList(e) :
                e \in {<<>>, <<NullSection>>, <<MapSection(Absent)>>, <<MapSection(Null)>>,
                       <<MapSection(JStr(" \t"))>>,
                       <<MapSection(JStr("Get $2 off"))>>,
                       <<MapSection(JStr("  A  ")), MapSection(JStr("B"))>>,
                       <<MapSection(JStr("A\n")), MapSection(Null)>>,
                       <<MapSection(Absent), MapSection(JStr("B"))>>}}

SectionsTruthy(v) ==
    CASE v.t \in {"absent", "null"} -> FALSE
      [] v.t = "list" -> Len(v.elems) > 0
      [] OTHER -> v.n > 0

\* the value under "detailsFormattedAttributesString"
Details(t, sections) == [t |-> t, sections |-> sections]
DetailsAbsent == Details("absent", SectionsAbsent)
DetailsMap(sections) == Details("map", sections)
DetailsValues ==
    {DetailsAbsent, Details("null", SectionsAbsent), Details("str", SectionsAbsent)}
        \cup {DetailsMap(sv) : sv \in SectionsValues}

\* the value under "offerImage": n = number of keys besides url
Image(t, url, n) == [t |-> t, url |-> url, n |-> n]
ImageAbsent == Image("absent", Absent, 0)
ImageValues ==
    {ImageAbsent, Image("null", Absent, 0), Image("map", Absent, 0), Image("map", Absent, 1),
     Image("map", JStr("https://example.com/a.jpg"), 0), Image("str", Absent, 1)}

ImageTruthy(v) ==
    CASE v.t \in {"absent", "null"} -> FALSE
      [] v.t = "map" -> (v.url.t # "absent" \/ v.n > 0)
      [] OTHER -> v.n > 0

\* the value under "viewSection"
View(t, name, ends, clipped, image, details) ==
    [t |-> t, nameString |-> name, endsOnString |-> ends, clippedVariant |-> clipped,
     offerImage |-> image, detailsFormattedAttributesString |-> details]
ViewAbsent == View("absent", Absent, Absent, Absent, ImageAbsent, DetailsAbsent)
ViewNull == View("null", Absent, Absent, Absent, ImageAbsent, DetailsAbsent)
ViewStr == View("str", Absent, Absent, Absent, ImageAbsent, DetailsAbsent)
ViewMap(clipped, image, details) ==
    View("map", JStr("Save $1 on Bananas"), JStr("2026-03-01"), clipped, image, details)
EmptyView == View("map", Absent, Absent, Absent, ImageAbsent, DetailsAbsent)
GoodDetails == DetailsMap(SectionsList(<<MapSection(JStr("Get $2 off"))>>))
GoodImage == Image("map", JStr("https://example.com/a.jpg"), 0)
ClippedVariants == {Absent, Null, JStr("true"), JStr("false"), JBool(TRUE), JStr("True")}
ViewValues ==
    {ViewAbsent, ViewNull, ViewStr, EmptyView}
        \cup {ViewMap(c, GoodImage, GoodDetails) : c \in ClippedVariants}
        \cup {ViewMap(JStr("false"), i, GoodDetails) : i \in ImageValues}
        \cup {ViewMap(JStr("false"), ImageAbsent, d) : d \in DetailsValues}

\* a raw offer record
Raw(t, id, offerId, couponId, offerRequestKey, view) ==
    [t |-> t, id |-> id, offerId |-> offerId, couponId |-> couponId,
     offerRequestKey |-> offerRequestKey, viewSection |-> view]
RawMap(k, view) ==
    Raw("map", JStr(IntToStr(k)), JStr("off_" \o IntToStr(k)), JStr("cpn_" \o IntToStr(k)),
        JStr("key_" \o IntToStr(k)), view)
RawNoKeys(view) == Raw("map", Absent, Absent, Absent, Absent, view)
RawStr == Raw("str", Absent, Absent, Absent, Absent, ViewAbsent)
RawNull == Raw("null", Absent, Absent, Absent, Absent, ViewAbsent)
RawValues ==
    {RawStr, RawNull, RawNoKeys(ViewAbsent), RawNoKeys(ViewMap(JStr("true"), GoodImage, GoodDetails)),
     Raw("map", JStr("7"), Absent, JStr("cpn_7"), Absent, ViewAbsent),
     RawMap(2, ViewMap(JStr("false"), GoodImage, GoodDetails))}
        \cup {RawMap(1, v) : v \in ViewValues}

(***************************************************************************)
(* SproutsClient._parse_single_offer: an Offer, or None for any exception. *)
(***************************************************************************)
NoneOffer == [none |-> TRUE, offer |-> [id |-> "", offer_id |-> "", coupon_id |-> "",
              offer_request_key |-> "", name |-> "", description |-> "", expires_on |-> "",
              is_clipped |-> FALSE, image_url |-> Null]]
SomeOffer(o) == [none |-> FALSE, offer |-> o]

\* faulty variant of parse_single_offer: is_clipped is the truth value of
\* clippedVariant
M_parse_single_offer_TruthyClipped(raw) ==
    LET view == DictGet(raw.viewSection, EmptyView)
        details == DictGet(view.detailsFormattedAttributesString, DetailsMap(SectionsAbsent))
        sections == DictGet(details.sections, SectionsList(<<>>))
        first == sections.elems[1]
        text == DictGet(first.text, JStr(""))
        image == DictGet(view.offerImage, Image("map", Absent, 0))
    IN  IF raw.t # "map" THEN NoneOffer
        ELSE IF view.t # "map" THEN NoneOffer
        ELSE IF details.t # "map" THEN NoneOffer
        ELSE IF SectionsTruthy(sections) /\ sections.t # "list" THEN NoneOffer
        ELSE IF SectionsTruthy(sections) /\ first.t # "map" THEN NoneOffer
        ELSE IF SectionsTruthy(sections) /\ text.t # "str" THEN NoneOffer
        ELSE IF ImageTruthy(image) /\ image.t # "map" THEN NoneOffer
        ELSE SomeOffer(
                [id |-> DictGet(raw.id, JStr("")).s,
                 offer_id |-> DictGet(raw.offerId, JStr("")).s,
                 coupon_id |-> DictGet(raw.couponId, JStr("")).s,
                 offer_request_key |-> DictGet(raw.offerRequestKey, JStr("")).s,
                 name |-> DictGet(view.nameString, JStr("")).s,
                 description |-> IF SectionsTruthy(sections) THEN PyStrip(text.s) ELSE "",
                 expires_on |-> DictGet(view.endsOnString, JStr("")).s,
                 is_clipped |-> Truthy(DictGet(view.clippedVariant, Null)),
                 image_url |-> IF ImageTruthy(image) THEN DictGet(image.url, Null) ELSE Null])

\* faulty variant of parse_single_offer: viewSection is read without a default
M_parse_single_offer_RequiresView(raw) ==
    LET view == raw.viewSection
        details == DictGet(view.detailsFormattedAttributesString, DetailsMap(SectionsAbsent))
        sections == DictGet(details.sections, SectionsList(<<>>))
        first == sections.elems[1]
        text == DictGet(first.text, JStr(""))
        image == DictGet(view.offerImage, Image("map", Absent, 0))
    IN  IF raw.t # "map" THEN NoneOffer
        ELSE IF view.t # "map" THEN NoneOffer
        ELSE IF details.t # "map" THEN NoneOffer
        ELSE IF SectionsTruthy(sections) /\ sections.t # "list" THEN NoneOffer
        ELSE IF SectionsTruthy(sections) /\ first.t # "map" THEN NoneOffer
        ELSE IF SectionsTruthy(sections) /\ text.t # "str" THEN NoneOffer
        ELSE IF ImageTruthy(image) /\ image.t # "map" THEN NoneOffer
        ELSE SomeOffer(
                [id |-> DictGet(raw.id, JStr("")).s,
                 offer_id |-> DictGet(raw.offerId, JStr("")).s,
                 coupon_id |-> DictGet(raw.couponId, JStr("")).s,
                 offer_request_key |-> DictGet(raw.offerRequestKey, JStr("")).s,
                 name |-> DictGet(view.nameString, JStr("")).s,
                 description |-> IF SectionsTruthy(sections) THEN PyStrip(text.s) ELSE "",
                 expires_on |-> DictGet(view.endsOnString, JStr("")).s,
                 is_clipped |-> (DictGet(view.clippedVariant, Null) = JStr("true")),
                 image_url |-> IF ImageTruthy(image) THEN DictGet(image.url, Null) ELSE Null])
parse_single_offer(raw) ==
    LET view == DictGet(raw.viewSection, EmptyView)
        details == DictGet(view.detailsFormattedAttributesString, DetailsMap(SectionsAbsent))
        sections == DictGet(details.sections, SectionsList(<<>>))
        first == sections.elems[1]
        text == DictGet(first.text, JStr(""))
        image == DictGet(view.offerImage, Image("map", Absent, 0))
    IN  IF raw.t # "map" THEN NoneOffer
        ELSE IF view.t # "map" THEN NoneOffer
        ELSE IF details.t # "map" THEN NoneOffer
        ELSE IF SectionsTruthy(sections) /\ sections.t # "list" THEN NoneOffer
        ELSE IF SectionsTruthy(sections) /\ first.t # "map" THEN NoneOffer
        ELSE IF SectionsTruthy(sections) /\ text.t # "str" THEN NoneOffer
        ELSE IF ImageTruthy(image) /\ image.t # "map" THEN NoneOffer
        ELSE SomeOffer(
                [id |-> DictGet(raw.id, JStr("")).s,
                 offer_id |-> DictGet(raw.offerId, JStr("")).s,
                 coupon_id |-> DictGet(raw.couponId, JStr("")).s,
                 offer_request_key |-> DictGet(raw.offerRequestKey, JStr("")).s,
                 name |-> DictGet(view.nameString, JStr("")).s,
                 description |-> IF SectionsTruthy(sections) THEN PyStrip(text.s) ELSE "",
                 expires_on |-> DictGet(view.endsOnString, JStr("")).s,
                 is_clipped |-> (DictGet(view.clippedVariant, Null) = JStr("true")),
                 image_url |-> IF ImageTruthy(image) THEN DictGet(image.url, Null) ELSE Null])

(***************************************************************************)
(* The listing envelope and SproutsClient._parse_offers / get_offers.      *)
(***************************************************************************)
OFFERS_QUERY_HASH == "f26ac1f27a58e191306d8fa6e15d4edd0492a625f0a8bd254310454a82596a8e"
DEFAULT_LIMIT == 500

\* the value under "offers": elems are the records of a list, n the size of
\* any other container or the value of a number
OffersVal(t, elems, n) == [t |-> t, elems |-> elems, n |-> n]
OffersAbsent == OffersVal("absent", <<>>, 0)
OffersList(elems) == OffersVal("list", elems, 0)
OffersValues ==
    {OffersAbsent, OffersVal("null", <<>>, 0), OffersVal("int", <<>>, 3),
     OffersVal("str", <<>>, 2), OffersVal("map", <<>>, 1)}
        \cup {OffersList(e) : e \in SeqsUpTo(RawValues, MaxRecords)}

\* the value under "userOffersV2"
UserOffers(t, offersVal) == [t |-> t, offers |-> offersVal]
UserOffersAbsent == UserOffers("absent", OffersAbsent)
UserOffersMap(offersVal) == UserOffers("map", offersVal)
UserOffersValues ==
    {UserOffersAbsent, UserOffers("null", OffersAbsent), UserOffers("str", OffersAbsent)}
        \cup {UserOffersMap(o) : o \in OffersValues}

\* the value under "data" of a listing body
ListData(t, userOffers) == [t |-> t, userOffersV2 |-> userOffers]
ListDataAbsent == ListData("absent", UserOffersAbsent)
ListDataNull == ListData("null", UserOffersAbsent)
ListDataMap(userOffers) == ListData("map", userOffers)
ListDataValues ==
    {ListDataAbsent, ListDataNull, ListData("str", UserOffersAbsent)}
        \cup {ListDataMap(u) : u \in UserOffersValues}

OneOfferData == ListDataMap(UserOffersMap(OffersList(<<RawMap(1, EmptyView)>>)))
ListBodies ==
    {Body(t, ErrorsAbsent, ListDataAbsent) : t \in {"invalid", "null", "list"}}
        \cup {BodyMap(e, ListDataNull) : e \in ErrorsValues}
        \cup {BodyMap(e, OneOfferData) : e \in ErrorsValues}
        \cup {BodyMap(ErrorsAbsent, d) : d \in ListDataValues}
HTTP_NOT_FOUND == 404
ListResponses ==
    {Response(HTTP_OK, b) : b \in ListBodies}
        \cup {Response(st, b) :
                st \in {HTTP_NOT_FOUND, HTTP_SERVER_ERROR},
                b \in {Body("invalid", ErrorsAbsent, ListDataAbsent),
                       BodyMap(ErrorsAbsent, OneOfferData),
                       BodyMap(ErrorsVal("list", 1, "map", JStr("Offer not found")),
                               ListDataNull)}}

\* faulty variant of get_offers_request: the hash of another operation
M_get_offers_request_WrongHash(sess, limit) ==
    Request("FindOffersForUserV2",
            [shopId |-> sess.shop_id, offerSources |-> <<"ic_inmar">>, limit |-> limit,
             filtering |-> <<>>, sorting |-> [key |-> "BEST_MATCH"]],
            GET_AVAILABLE_OFFER_HASH)
\* get_offers, the request
get_offers_request(sess, limit) ==
    Request("FindOffersForUserV2",
            [shopId |-> sess.shop_id, offerSources |-> <<"ic_inmar">>, limit |-> limit,
             filtering |-> <<>>, sorting |-> [key |-> "BEST_MATCH"]],
            OFFERS_QUERY_HASH)

\* the result of a call: the exception raised, or the list returned
ListRaise(e, msg) == [exc |-> e, msg |-> msg, offers |-> <<>>]
ListReturn(os) == [exc |-> "none", msg |-> "", offers |-> os]

\* the loop of _parse_offers over a list of records: the Offers of the
\* records that do not yield None, in the order of the records
RECURSIVE parse_records(_)
parse_records(raws) ==
    IF raws = <<>> THEN <<>>
    ELSE LET offer == parse_single_offer(Head(raws))
         IN  IF offer.none
             THEN parse_records(Tail(raws))
             ELSE <<offer.offer>> \o parse_records(Tail(raws))

\* faulty variant of parse_offers: a null on the path counts as an absent key
M_parse_offers_NullAsAbsent(data) ==
    LET Get(v, default) == IF v.t \in {"absent", "null"} THEN default ELSE v
        inner == Get(data.data, ListDataMap(UserOffersAbsent))
        user_offers == Get(inner.userOffersV2, UserOffersMap(OffersAbsent))
        raw_offers == Get(user_offers.offers, OffersList(<<>>))
    IN  IF data.t # "map" THEN ListRaise("AttributeError", "")
        ELSE IF inner.t # "map" THEN ListRaise("AttributeError", "")
        ELSE IF user_offers.t # "map" THEN ListRaise("AttributeError", "")
        ELSE IF raw_offers.t = "int" THEN ListRaise("TypeError", "")
        ELSE IF raw_offers.t # "list" THEN ListReturn(<<>>)
        ELSE ListReturn(parse_records(raw_offers.elems))
\* faulty variant of parse_offers: the offers are returned newest first
M_parse_offers_Reversed(data) ==
    LET inner == DictGet(data.data, ListDataMap(UserOffersAbsent))
        user_offers == DictGet(inner.userOffersV2, UserOffersMap(OffersAbsent))
        raw_offers == DictGet(user_offers.offers, OffersList(<<>>))
        os == parse_records(raw_offers.elems)
    IN  IF data.t # "map" THEN ListRaise("AttributeError", "")
        ELSE IF inner.t # "map" THEN ListRaise("AttributeError", "")
        ELSE IF user_offers.t # "map" THEN ListRaise("AttributeError", "")
        ELSE IF raw_offers.t \in {"null", "int"} THEN ListRaise("TypeError", "")
        ELSE IF raw_offers.t # "list" THEN ListReturn(<<>>)
        ELSE ListReturn([i \in 1..Len(os) |-> os[Len(os) + 1 - i]])

\* faulty variant of parse_offers: a key of the path that is missing is an error
M_parse_offers_RequiresPath(data) ==
    LET inner == data.data
        user_offers == inner.userOffersV2
        raw_offers == user_offers.offers
    IN  IF data.t # "map" THEN ListRaise("AttributeError", "")
        ELSE IF inner.t = "absent" THEN ListRaise("KeyError", "")
        ELSE IF inner.t # "map" THEN ListRaise("AttributeError", "")
        ELSE IF user_offers.t = "absent" THEN ListRaise("KeyError", "")
        ELSE IF user_offers.t # "map" THEN ListRaise("AttributeError", "")
        ELSE IF raw_offers.t = "absent" THEN ListRaise("KeyError", "")
        ELSE IF raw_offers.t \in {"null", "int"} THEN ListRaise("TypeError", "")
        ELSE IF raw_offers.t # "list" THEN ListReturn(<<>>)
        ELSE ListReturn(parse_records(raw_offers.elems))

\* faulty variant of parse_offers: a record that yields None aborts the batch
M_parse_offers_AbortsOnMalformed(data) ==
    LET inner == DictGet(data.data, ListDataMap(UserOffersAbsent))
        user_offers == DictGet(inner.userOffersV2, UserOffersMap(OffersAbsent))
        raw_offers == DictGet(user_offers.offers, OffersList(<<>>))
    IN  IF data.t # "map" THEN ListRaise("AttributeError", "")
        ELSE IF inner.t # "map" THEN ListRaise("AttributeError", "")
        ELSE IF user_offers.t # "map" THEN ListRaise("AttributeError", "")
        ELSE IF raw_offers.t \in {"null", "int"} THEN ListRaise("TypeError", "")
        ELSE IF raw_offers.t # "list" THEN ListReturn(<<>>)
        ELSE IF \E i \in 1..Len(raw_offers.elems) : parse_single_offer(raw_offers.elems[i]).none
        THEN ListRaise("ValueError", "")
        ELSE ListReturn(parse_records(raw_offers.elems))
\* _parse_offers: an exception in the extraction of the list is logged and
\* raised again; the characters of a string and the keys of a mapping are
\* strings, for which _parse_single_offer yields None
parse_offers(data) ==
    LET inner == DictGet(data.data, ListDataMap(UserOffersAbsent))
        user_offers == DictGet(inner.userOffersV2, UserOffersMap(OffersAbsent))
        raw_offers == DictGet(user_offers.offers, OffersList(<<>>))
    IN  IF data.t # "map" THEN ListRaise("AttributeError", "")
        ELSE IF inner.t # "map" THEN ListRaise("AttributeError", "")
        ELSE IF user_offers.t # "map" THEN ListRaise("AttributeError", "")
        ELSE IF raw_offers.t \in {"null", "int"} THEN ListRaise("TypeError", "")
        ELSE IF raw_offers.t # "list" THEN ListReturn(<<>>)
        ELSE ListReturn(parse_records(raw_offers.elems))

\* faulty variant of get_offers: an error of the request yields an empty list
M_get_offers_EmptyOnError(response) ==
    LET r == graphql_get(response)
    IN  IF r.exc # "none" THEN ListReturn(<<>>) ELSE parse_offers(r.val)
\* get_offers, from the response on
get_offers(response) ==
    LET r == graphql_get(response)
    IN  IF r.exc # "none" THEN ListRaise(r.exc, r.msg) ELSE parse_offers(r.val)

(***************************************************************************)
(* The dataclass constructor of SessionInfo (models.py), called with the   *)
(* keyword arguments kwargs.  None of the four fields has a default.       *)
(***************************************************************************)
SessionFields == {"cookies", "shop_id", "user_name", "store_name"}
SessionRequired == {"cookies", "shop_id", "user_name", "store_name"}
SessionInfo_init(kwargs) ==
    IF SessionRequired \subseteq kwargs THEN "none" ELSE "TypeError"

(***************************************************************************)
(* State.                                                                  *)
(***************************************************************************)
VARIABLES
    session,          \* the SessionInfo the client was built on
    offers,           \* the Offer objects of the run, in listing order
    pc,               \* clip_coupon: "idle", "GetAvailableOffer", "ClipCoupon", "done"
    cur,              \* index in offers of the offer clip_coupon works on
    entry_offer,      \* that offer as it was when clip_coupon was entered
    requests,         \* requests sent by the current clip_coupon call, in order
    detail_response,  \* the response to GetAvailableOffer
    offer_data,       \* clip_coupon's local offer_data
    item_id,          \* clip_coupon's local item_id
    clip_response,    \* the response to ClipCoupon
    ret,              \* "none", "True", "False", or "raise" (exception escaped)
    exc,              \* the exception that escaped clip_coupon
    cac_pc,           \* clip_all_coupons: "idle", "loop", "call", "done", "raised"
    cac_i,            \* clip_all_coupons: index of the loop's current offer
    newly_clipped,    \* clip_all_coupons: indices of the offers appended
    session_kwargs,   \* the keyword arguments SessionInfo was called with
    session_exc,      \* "unset", or what that call raised ("none": it returned)
    go_pc,            \* get_offers: "idle", "FindOffersForUserV2", "done"
    list_response,    \* the response to FindOffersForUserV2
    go_result,        \* get_offers: the exception it raised (exc, msg), if any
    main_pc,          \* main: "none" (not run), "start", "get_offers", "clip", "exit"
    exit_code,        \* main's return value, -1 before it returns
    report,           \* what log_report has logged
    email             \* what became of the email report

vars == <<session, offers, pc, cur, entry_offer, requests, detail_response, offer_data,
          item_id, clip_response, ret, exc, cac_pc, cac_i, newly_clipped,
          session_kwargs, session_exc, go_pc, list_response, go_result,
          main_pc, exit_code, report, email>>

NoResponse == Response(0, Body("invalid", ErrorsAbsent, DataAbsent))
NoOffer == Offer("", "", FALSE)
NoResult == [exc |-> "none", msg |-> ""]
NoReport == [logged |-> FALSE, total |-> 0, clipped |-> 0, available |-> 0]

\* no session has been built in this run, get_offers and main are not running
ListingIdle ==
    /\ session_kwargs = SessionFields
    /\ session_exc = "none"
    /\ go_pc = "idle"
    /\ list_response = NoResponse
    /\ go_result = NoResult
    /\ main_pc = "none"
    /\ exit_code = -1
    /\ report = NoReport
    /\ email = "none"

UnchangedListing ==
    UNCHANGED <<session_kwargs, session_exc, go_pc, list_response, go_result,
                main_pc, exit_code, report, email>>

Init ==
    /\ session \in {SessionInfo(sh) : sh \in ShopIds}
    /\ offers \in UNION {[1..k -> OfferValues] : k \in 1..MaxOffers}
    /\ pc = "idle"
    /\ cur = 0
    /\ entry_offer = NoOffer
    /\ requests = <<>>
    /\ detail_response = NoResponse
    /\ offer_data = OfferDataNone
    /\ item_id = Null
    /\ clip_response = NoResponse
    /\ ret = "none"
    /\ exc = "none"
    /\ cac_pc = "idle"
    /\ cac_i = 0
    /\ newly_clipped = <<>>
    /\ ListingIdle

\* clip_coupon from its entry to the first network call (client.py 180-186)
Enter(i) ==
    /\ cur' = i
    /\ entry_offer' = offers[i]
    /\ detail_response' = NoResponse
    /\ offer_data' = OfferDataNone
    /\ item_id' = Null
    /\ clip_response' = NoResponse
    /\ exc' = "none"
    /\ IF already_clipped(offers[i])
       THEN /\ pc' = "done"
            /\ ret' = "True"
            /\ requests' = <<>>
       ELSE /\ pc' = "GetAvailableOffer"
            /\ ret' = "none"
            /\ requests' = <<get_available_offer_request(offers[i], session)>>
    /\ UNCHANGED <<session, offers>>

\* a caller other than clip_all_coupons calls client.clip_coupon(offers[i]),
\* any number of times
clip_coupon(i) ==
    /\ pc \in {"idle", "done"}
    /\ cac_pc = "idle"
    /\ main_pc = "none"
    /\ Enter(i)
    /\ UNCHANGED <<cac_pc, cac_i, newly_clipped>>
    /\ UnchangedListing

\* after clip_all_coupons has returned, a caller calls client.clip_coupon
\* again on an offer of the newly-clipped list
clip_coupon_again(k) ==
    /\ pc \in {"idle", "done"}
    /\ cac_pc = "done"
    /\ main_pc = "none"
    /\ Enter(newly_clipped[k])
    /\ UNCHANGED <<cac_pc, cac_i, newly_clipped>>
    /\ UnchangedListing

\* the GetAvailableOffer response arrives: _get_available_offer returns and
\* clip_coupon runs on to its return or to the ClipCoupon call (client.py 159-236)
RecvAvailableOffer ==
    /\ pc = "GetAvailableOffer"
    /\ \E response \in DetailResponses, page_view_id \in PageViewIds :
         LET od == get_available_offer(response)
             res == resolve_item_id(od)
         IN  /\ detail_response' = response
             /\ offer_data' = od
             /\ IF ~OfferDataTruthy(od)
                THEN /\ pc' = "done" /\ ret' = "False" /\ exc' = "none"
                     /\ item_id' = Null
                     /\ requests' = requests
                ELSE IF res.exc # "none"
                THEN /\ pc' = "done" /\ ret' = "raise" /\ exc' = res.exc
                     /\ item_id' = Null
                     /\ requests' = requests
                ELSE IF ~res.found
                THEN /\ pc' = "done" /\ ret' = "False" /\ exc' = "none"
                     /\ item_id' = Null
                     /\ requests' = requests
                ELSE /\ pc' = "ClipCoupon" /\ ret' = "none" /\ exc' = "none"
                     /\ item_id' = res.item_id
                     /\ requests' = Append(requests,
                            clip_coupon_request(offers[cur], session, res.item_id, page_view_id))
    /\ UNCHANGED <<session, offers, cur, entry_offer, clip_response,
                   cac_pc, cac_i, newly_clipped>>
    /\ UnchangedListing

\* faulty variant of RecvClipCoupon: clip_coupon itself marks the offer on success
M_RecvClipCoupon_MarksOnSuccess ==
    /\ pc = "ClipCoupon"
    /\ \E response \in ClipResponses :
         /\ clip_response' = response
         /\ ret' = IF clip_result(response) THEN "True" ELSE "False"
         /\ offers' = IF clip_result(response)
                       THEN [offers EXCEPT ![cur].is_clipped = TRUE]
                       ELSE offers
    /\ pc' = "done"
    /\ UNCHANGED <<session, cur, entry_offer, requests, detail_response,
                   offer_data, item_id, exc, cac_pc, cac_i, newly_clipped>>
    /\ UnchangedListing

\* faulty variant of RecvClipCoupon: the offer is marked before the response is examined
M_RecvClipCoupon_MarksFirst ==
    /\ pc = "ClipCoupon"
    /\ \E response \in ClipResponses :
         /\ clip_response' = response
         /\ ret' = IF clip_result(response) THEN "True" ELSE "False"
    /\ offers' = [offers EXCEPT ![cur].is_clipped = TRUE]
    /\ pc' = "done"
    /\ UNCHANGED <<session, cur, entry_offer, requests, detail_response,
                   offer_data, item_id, exc, cac_pc, cac_i, newly_clipped>>
    /\ UnchangedListing

\* the ClipCoupon response arrives: clip_coupon returns (client.py 235-248)
RecvClipCoupon ==
    /\ pc = "ClipCoupon"
    /\ \E response \in ClipResponses :
         /\ clip_response' = response
         /\ ret' = IF clip_result(response) THEN "True" ELSE "False"
    /\ pc' = "done"
    /\ UNCHANGED <<session, offers, cur, entry_offer, requests, detail_response,
                   offer_data, item_id, exc, cac_pc, cac_i, newly_clipped>>
    /\ UnchangedListing

(***************************************************************************)
(* clip_all_coupons (main.py 50-59).                                       *)
(***************************************************************************)
UnchangedCall ==
    UNCHANGED <<pc, cur, entry_offer, requests, detail_response, offer_data,
                item_id, clip_response, ret, exc>>

\* the call main makes, once per run: newly_clipped = [] and the loop starts
clip_all_coupons ==
    /\ pc = "idle"
    /\ cac_pc = "idle"
    /\ main_pc \in {"none", "clip"}
    /\ cac_pc' = "loop"
    /\ cac_i' = 1
    /\ newly_clipped' = <<>>
    /\ UNCHANGED <<session, offers>>
    /\ UnchangedCall
    /\ UnchangedListing

\* the head of one iteration: a clipped offer is skipped, an unclipped one
\* is handed to client.clip_coupon
LoopStep ==
    /\ cac_pc = "loop"
    /\ cac_i <= Len(offers)
    /\ IF offers[cac_i].is_clipped
       THEN /\ cac_i' = cac_i + 1
            /\ cac_pc' = "loop"
            /\ UNCHANGED <<session, offers>>
            /\ UnchangedCall
       ELSE /\ cac_pc' = "call"
            /\ cac_i' = cac_i
            /\ Enter(cac_i)
    /\ UNCHANGED newly_clipped
    /\ UnchangedListing

\* faulty variant of LoopReturn: the offer is marked and appended whatever
\* clip_coupon returned
M_LoopReturn_MarksAlways ==
    /\ cac_pc = "call"
    /\ pc = "done"
    /\ IF ret = "raise"
       THEN /\ cac_pc' = "raised"
            /\ UNCHANGED <<offers, newly_clipped, cac_i, ret, exc>>
       ELSE /\ cac_pc' = "loop"
            /\ cac_i' = cac_i + 1
            /\ offers' = [offers EXCEPT ![cac_i].is_clipped = TRUE]
            /\ newly_clipped' = Append(newly_clipped, cac_i)
            /\ ret' = "none"
            /\ exc' = "none"
    /\ pc' = "idle"
    /\ cur' = 0
    /\ entry_offer' = NoOffer
    /\ requests' = <<>>
    /\ detail_response' = NoResponse
    /\ offer_data' = OfferDataNone
    /\ item_id' = Null
    /\ clip_response' = NoResponse
    /\ UNCHANGED session
    /\ UnchangedListing
\* client.clip_coupon has returned to the loop (or raised through it): the
\* call is over and its locals are gone; a True result marks the offer and
\* appends it
LoopReturn ==
    /\ cac_pc = "call"
    /\ pc = "done"
    /\ IF ret = "raise"
       THEN /\ cac_pc' = "raised"
            /\ UNCHANGED <<offers, newly_clipped, cac_i, ret, exc>>
       ELSE /\ cac_pc' = "loop"
            /\ cac_i' = cac_i + 1
            /\ IF ret = "True"
               THEN /\ offers' = [offers EXCEPT ![cac_i].is_clipped = TRUE]
                    /\ newly_clipped' = Append(newly_clipped, cac_i)
               ELSE UNCHANGED <<offers, newly_clipped>>
            /\ ret' = "none"
            /\ exc' = "none"
    /\ pc' = "idle"
    /\ cur' = 0
    /\ entry_offer' = NoOffer
    /\ requests' = <<>>
    /\ detail_response' = NoResponse
    /\ offer_data' = OfferDataNone
    /\ item_id' = Null
    /\ clip_response' = NoResponse
    /\ UNCHANGED session
    /\ UnchangedListing

\* the loop is exhausted: return newly_clipped
LoopExit ==
    /\ cac_pc = "loop"
    /\ cac_i > Len(offers)
    /\ cac_pc' = "done"
    /\ UNCHANGED <<session, offers, cac_i, newly_clipped>>
    /\ UnchangedCall
    /\ UnchangedListing

Next ==
    \/ \E i \in 1..Len(offers) : clip_coupon(i)
    \/ RecvAvailableOffer
    \/ RecvClipCoupon
    \/ clip_all_coupons
    \/ LoopStep
    \/ LoopReturn
    \/ LoopExit
    \/ \E k \in 1..Len(newly_clipped) : clip_coupon_again(k)

Spec == Init /\ [][Next]_vars

(***************************************************************************)
(* Building a session and listing the offers (models.py 4-11,              *)
(* client.py 84-110).                                                      *)
(***************************************************************************)
NoSession == SessionInfo("")
Limits == {DEFAULT_LIMIT, MaxRecords}

InitList ==
    /\ session = NoSession
    /\ offers = <<>>
    /\ pc = "idle"
    /\ cur = 0
    /\ entry_offer = NoOffer
    /\ requests = <<>>
    /\ detail_response = NoResponse
    /\ offer_data = OfferDataNone
    /\ item_id = Null
    /\ clip_response = NoResponse
    /\ ret = "none"
    /\ exc = "none"
    /\ cac_pc = "idle"
    /\ cac_i = 0
    /\ newly_clipped = <<>>
    /\ session_kwargs = {}
    /\ session_exc = "unset"
    /\ go_pc = "idle"
    /\ list_response = NoResponse
    /\ go_result = NoResult
    /\ main_pc = "none"
    /\ exit_code = -1
    /\ report = NoReport
    /\ email = "none"

UnchangedClipping ==
    UNCHANGED <<pc, cur, entry_offer, detail_response, offer_data, item_id,
                clip_response, ret, exc, cac_pc, cac_i, newly_clipped>>

\* SessionInfo called with the keyword arguments kwargs: the session exists
\* only if the constructor returns
new_session ==
    /\ session_exc = "unset"
    /\ main_pc = "none"
    /\ \E kwargs \in SUBSET SessionFields, sh \in ShopIds :
         /\ session_kwargs' = kwargs
         /\ session_exc' = SessionInfo_init(kwargs)
         /\ session' = IF SessionInfo_init(kwargs) = "none"
                       THEN SessionInfo(sh) ELSE session
    /\ UNCHANGED <<offers, requests, go_pc, list_response, go_result,
                   main_pc, exit_code, report, email>>
    /\ UnchangedClipping

\* get_offers up to its network call (client.py 84-95)
SendFindOffers(sess, limit) ==
    /\ requests' = <<get_offers_request(sess, limit)>>
    /\ go_pc' = "FindOffersForUserV2"
    /\ list_response' = NoResponse
    /\ go_result' = NoResult
    /\ offers' = <<>>

\* a client built on the session is asked for the offers
get_offers_call ==
    /\ session_exc = "none"
    /\ main_pc = "none"
    /\ go_pc \in {"idle", "done"}
    /\ \E limit \in Limits : SendFindOffers(session, limit)
    /\ UNCHANGED <<session, session_kwargs, session_exc,
                   main_pc, exit_code, report, email>>
    /\ UnchangedClipping

\* the FindOffersForUserV2 response arrives: _graphql_get and _parse_offers
\* run, get_offers returns the parsed offers or raises (client.py 70-82, 96-110)
RecvOffers ==
    /\ go_pc = "FindOffersForUserV2"
    /\ main_pc = "none"
    /\ \E response \in ListResponses :
         LET r == get_offers(response)
         IN  /\ list_response' = response
             /\ go_result' = [exc |-> r.exc, msg |-> r.msg]
             /\ offers' = r.offers
             /\ go_pc' = "done"
    /\ UNCHANGED <<session, requests, session_kwargs, session_exc,
                   main_pc, exit_code, report, email>>
    /\ UnchangedClipping

NextList ==
    \/ new_session
    \/ get_offers_call
    \/ RecvOffers

SpecList == InitList /\ [][NextList]_vars

(***************************************************************************)
(***************************************************************************)
(* main (main.py 62-146): log in, list the offers, clip them unless        *)
(* --skip-clip was given, log the report and mail it; any exception ends   *)
(* the run with exit code 1.                                               *)
(***************************************************************************)
\* the records the server lists in a run of main
MainRaws ==
    {RawMap(1, ViewMap(JStr("false"), GoodImage, GoodDetails)),
     RawMap(2, ViewMap(JStr("true"), GoodImage, GoodDetails)),
     RawNull}
MainListResponses ==
    {Response(HTTP_SERVER_ERROR, Body("invalid", ErrorsAbsent, ListDataAbsent)),
     Response(HTTP_NOT_FOUND, BodyMap(ErrorsAbsent, OneOfferData)),
     Response(HTTP_OK, BodyMap(ErrorsVal("list", 1, "map", JStr("Offer not found")),
                               OneOfferData)),
     Response(HTTP_OK, BodyMap(ErrorsAbsent, ListDataNull))}
        \cup {Response(HTTP_OK, BodyMap(ErrorsAbsent, ListDataMap(UserOffersMap(OffersList(e))))) :
                e \in SeqsUpTo(MainRaws, MaxRecords)}

\* what becomes of the email: printed instead (--dry-run), handed to
\* sendmail with or without success, or not sent for lack of addresses
EmailOutcomes == {"dry_run", "sent", "send_failed", "not_configured"}

build_report(os) ==
    [logged |-> TRUE,
     total |-> Len(os),
     clipped |-> Cardinality({i \in 1..Len(os) : os[i].is_clipped}),
     available |-> Cardinality({i \in 1..Len(os) : ~os[i].is_clipped})]

InitMain ==
    /\ session = NoSession
    /\ offers = <<>>
    /\ pc = "idle"
    /\ cur = 0
    /\ entry_offer = NoOffer
    /\ requests = <<>>
    /\ detail_response = NoResponse
    /\ offer_data = OfferDataNone
    /\ item_id = Null
    /\ clip_response = NoResponse
    /\ ret = "none"
    /\ exc = "none"
    /\ cac_pc = "idle"
    /\ cac_i = 0
    /\ newly_clipped = <<>>
    /\ session_kwargs = {}
    /\ session_exc = "unset"
    /\ go_pc = "idle"
    /\ list_response = NoResponse
    /\ go_result = NoResult
    /\ main_pc = "start"
    /\ exit_code = -1
    /\ report = NoReport
    /\ email = "none"

\* the except clause of main: return 1
MainFails ==
    /\ main_pc' = "exit"
    /\ exit_code' = 1
    /\ UNCHANGED <<report, email>>

\* log_report(offers), the email, return 0 (main.py 120-142)
MainFinish(os) ==
    /\ report' = build_report(os)
    /\ \E outcome \in EmailOutcomes : email' = outcome
    /\ exit_code' = 0
    /\ main_pc' = "exit"

\* login_and_get_session raises, or returns the session built from all four
\* fields (session.py 119); main builds the client and calls get_offers
MainLogin ==
    /\ main_pc = "start"
    /\ \E logged_in \in BOOLEAN, sh \in ShopIds :
         IF logged_in /\ SessionInfo_init(SessionFields) = "none"
         THEN /\ session' = SessionInfo(sh)
              /\ session_kwargs' = SessionFields
              /\ session_exc' = "none"
              /\ SendFindOffers(SessionInfo(sh), DEFAULT_LIMIT)
              /\ main_pc' = "get_offers"
              /\ UNCHANGED <<exit_code, report, email>>
         ELSE /\ MainFails
              /\ UNCHANGED <<session, session_kwargs, session_exc, offers, requests,
                             go_pc, list_response, go_result>>
    /\ UnchangedClipping

\* the FindOffersForUserV2 response arrives in main: an exception of
\* get_offers ends the run; otherwise the offers are logged and, with
\* --skip-clip, reported at once
MainRecvOffers ==
    /\ main_pc = "get_offers"
    /\ go_pc = "FindOffersForUserV2"
    /\ \E response \in MainListResponses, skip_clip \in BOOLEAN :
         LET r == get_offers(response)
         IN  /\ list_response' = response
             /\ go_result' = [exc |-> r.exc, msg |-> r.msg]
             /\ go_pc' = "done"
             /\ offers' = r.offers
             /\ IF r.exc # "none" THEN MainFails
                ELSE IF skip_clip THEN MainFinish(r.offers)
                ELSE /\ main_pc' = "clip"
                     /\ UNCHANGED <<exit_code, report, email>>
    /\ UNCHANGED <<session, requests, session_kwargs, session_exc>>
    /\ UnchangedClipping

\* clip_all_coupons has returned to main
MainReport ==
    /\ main_pc = "clip"
    /\ cac_pc = "done"
    /\ MainFinish(offers)
    /\ UNCHANGED <<session, offers, requests, session_kwargs, session_exc,
                   go_pc, list_response, go_result>>
    /\ UnchangedClipping

\* an exception of clip_coupon has come up through clip_all_coupons
MainClipRaised ==
    /\ main_pc = "clip"
    /\ cac_pc = "raised"
    /\ MainFails
    /\ UNCHANGED <<session, offers, requests, session_kwargs, session_exc,
                   go_pc, list_response, go_result>>
    /\ UnchangedClipping

NextMain ==
    \/ MainLogin
    \/ MainRecvOffers
    \/ clip_all_coupons
    \/ LoopStep
    \/ LoopReturn
    \/ LoopExit
    \/ RecvAvailableOffer
    \/ RecvClipCoupon
    \/ MainReport
    \/ MainClipRaised

SpecMain == InitMain /\ [][NextMain]_vars
(* Vocabulary of the properties.                                           *)
(***************************************************************************)
IsClipRequest(r) == r.operationName = "ClipCoupon"
NoClipRequest == \A k \in 1..Len(requests) : ~IsClipRequest(requests[k])
Returned == pc = "done"

\* the ClipCoupon call returned without error and data.clipCouponV2 is truthy
ClipConfirmed ==
    /\ clip_response # NoResponse
    /\ clip_response.status = HTTP_OK
    /\ clip_response.body.t = "map"
    /\ clip_response.body.errors.t = "absent"
    /\ clip_response.body.data.t = "map"
    /\ LET c == clip_response.body.data.clipCouponV2
       IN  \/ c.t = "bool" /\ c.b
           \/ c.t \in {"map", "list"} /\ c.n > 0
           \/ c.t = "str" /\ c.s # ""
           \/ c.t = "int" /\ c.n # 0

\* the detail result of the call in progress (or just returned) is a mapping
\* whose items list is present and empty
EmptyItems ==
    /\ pc # "idle"
    /\ offer_data.t = "map"
    /\ offer_data.items.t = "list"
    /\ Len(offer_data.items.elems) = 0

\* C1: a clip_coupon call on an offer that is already clipped returns True
\* and sends no request at all.
C1_AlreadyClippedShortCircuit ==
    (Returned /\ entry_offer.is_clipped) => (ret = "True" /\ requests = <<>>)

C1_Witness ==
    Returned /\ cur > 0 /\ entry_offer.is_clipped /\ ret = "True" /\ cac_pc = "idle"

\* C2: clip_coupon never raises: whatever the offer and the two responses,
\* the call ends by returning True or False.
C2_NeverRaises == Returned => ret \in {"True", "False"}

\* C3 (as stated): at the moment clip_coupon returns True, the offer's
\* is_clipped is true.
C3_ClippedAtReturn == (Returned /\ ret = "True") => offers[cur].is_clipped

\* C3 (amended): on a confirmed clip of an unclipped offer clip_coupon returns
\* True and leaves the offer as it was (is_clipped still false); it is
\* clip_all_coupons that sets is_clipped right after the True result.
C3_FlagSetByCaller ==
    /\ [](Returned /\ ClipConfirmed =>
            ret = "True" /\ offers[cur] = entry_offer /\ ~offers[cur].is_clipped)
    /\ [][(cac_pc = "call" /\ Returned /\ ret = "True") =>
            (offers'[cur].is_clipped /\ offers' = [offers EXCEPT ![cur].is_clipped = TRUE])]_vars

C3_Witness ==
    /\ cac_pc = "call" /\ Returned /\ ret = "True" /\ ClipConfirmed
    /\ ~offers[cur].is_clipped
    /\ Len(newly_clipped) > 0 /\ offers[newly_clipped[1]].is_clipped

\* C4: a clip_coupon call that returns False leaves every field of the
\* offer as it was at entry.
C4_FalseLeavesOfferUnmodified ==
    (Returned /\ ret = "False") => (offers[cur] = entry_offer /\ ~offers[cur].is_clipped)

C4_Witness ==
    /\ Returned /\ ret = "False" /\ clip_response # NoResponse /\ ~ClipConfirmed
    /\ offers[cur] = entry_offer

\* C5: when the GetAvailableOffer call raises (transport or application
\* error) or data.getAvailableOffer is null, clip_coupon returns False, sends
\* no ClipCoupon request and leaves is_clipped unchanged.
DetailFailed ==
    /\ detail_response # NoResponse
    /\ \/ detail_response.status >= 400
       \/ /\ detail_response.body.t = "map"
          /\ detail_response.body.errors.t # "absent"
       \/ /\ detail_response.body.t = "map"
          /\ detail_response.body.errors.t = "absent"
          /\ detail_response.body.data.t = "map"
          /\ detail_response.body.data.getAvailableOffer.t = "null"

C5_DetailFailureReturnsFalse ==
    DetailFailed =>
        /\ pc # "ClipCoupon"
        /\ NoClipRequest
        /\ Returned => (ret = "False" /\ offers[cur].is_clipped = entry_offer.is_clipped)

C5_Witness ==
    /\ Returned /\ DetailFailed /\ ret = "False"
    /\ detail_response.status = HTTP_OK
    /\ detail_response.body.errors.t = "absent"
    /\ Len(requests) = 1

FirstItemWithoutLegacyId ==
    /\ pc # "idle"
    /\ offer_data.t = "map"
    /\ offer_data.items.t = "list"
    /\ Len(offer_data.items.elems) >= 1
    /\ offer_data.items.elems[1].t = "map"
    /\ offer_data.items.elems[1].legacyId.t = "absent"

C8_NoLegacyIdReturnsFalse ==
    FirstItemWithoutLegacyId =>
        (Returned /\ ret = "False" /\ NoClipRequest /\ Len(requests) = 1 /\ item_id = Null)

C8_Witness ==
    /\ FirstItemWithoutLegacyId /\ Returned /\ ret = "False"
    /\ Len(offer_data.items.elems) >= 2
    /\ offer_data.items.elems[2] = MapItem(JStr("999"))

\* C9: every ClipCoupon request carries as itemId the string form of the
\* first item's legacyId of the call's detail result (the default id when
\* there is no item), the session's shop_id as shopId, fetchRelatedItems
\* true, and offer_request_key + "/" + offer_id of the offer being clipped.
C9_ClipRequestVariables ==
    \A k \in 1..Len(requests) :
        IsClipRequest(requests[k]) =>
            LET v == requests[k].variables
                items == offer_data.items
            IN  /\ IF items.t = "list" /\ Len(items.elems) > 0
                   THEN /\ items.elems[1].legacyId \in {JStr("999"), JInt(999)}
                        /\ v.itemId = "999"
                   ELSE v.itemId = "000000000001"
                /\ v.shopId = session.shop_id
                /\ v.fetchRelatedItems = TRUE
                /\ v.offerReference =
                       offers[cur].offer_request_key \o "/" \o offers[cur].offer_id

C9_Witness ==
    /\ pc = "ClipCoupon"
    /\ Len(requests) = 2
    /\ offer_data.items.t = "list"
    /\ Len(offer_data.items.elems) > 0
    /\ offer_data.items.elems[1].legacyId = JInt(999)
    /\ requests[2].variables.itemId = "999"
    /\ requests[2].variables.offerReference = "key1/42"
    /\ requests[2].variables.shopId = "S2"

\* C10: once an unclipped offer's detail fetch has given an item id,
\* clip_coupon returns True exactly when the ClipCoupon call returns without
\* error with a truthy data.clipCouponV2; a null, absent, false or empty
\* clipCouponV2 gives False.
C10_TrueIffClipConfirmed ==
    (Returned /\ ~entry_offer.is_clipped /\ item_id # Null) =>
        /\ ret \in {"True", "False"}
        /\ (ret = "True") <=> ClipConfirmed
        /\ clip_response.body.data.clipCouponV2
              \in {Absent, Null, JBool(FALSE), JStr(""), JMap(0), JList(0)}
           => ret = "False"

C10_Witness ==
    /\ Returned /\ ~entry_offer.is_clipped /\ item_id = JStr("999")
    /\ ClipConfirmed /\ ret = "True"
    /\ clip_response.body.data.clipCouponV2 = JMap(1)

(***************************************************************************)
(* Vocabulary of the listing properties.                                   *)
(***************************************************************************)
\* get_offers has returned or raised, on the response list_response
Listed == go_pc = "done"
ListRaised == Listed /\ go_result.exc # "none"
ListReturned == Listed /\ go_result.exc = "none"
\* the records of data.userOffersV2.offers of the response, when the body
\* has that list
HasRecords ==
    /\ list_response.body.t = "map"
    /\ list_response.body.data.t = "map"
    /\ list_response.body.data.userOffersV2.t = "map"
    /\ list_response.body.data.userOffersV2.offers.t = "list"
Records == list_response.body.data.userOffersV2.offers.elems

(***************************************************************************)
(* C11: whenever the response has a non-success status, whatever its body, *)
(* _graphql_get raises requests.HTTPError and hands no body on: get_offers,*)
(* which does not catch it, ends with that HTTPError and without offers.   *)
(***************************************************************************)
C11_NonSuccessRaisesHTTPError ==
    (Listed /\ list_response.status # HTTP_OK) =>
        /\ go_result.exc = "HTTPError"
        /\ offers = <<>>

\* a 404 whose body is a well-formed listing with one record
C11_Witness ==
    /\ Listed
    /\ list_response.status = HTTP_NOT_FOUND
    /\ HasRecords
    /\ Len(Records) = 1
    /\ list_response.body.errors.t = "absent"
    /\ go_result.exc = "HTTPError"

(***************************************************************************)
(* C12: on a success status, a decoded body with an errors array makes     *)
(* _graphql_get raise RuntimeError with the message of the array's first   *)
(* entry, for any such array; get_offers ends with that RuntimeError.      *)
(***************************************************************************)
C12_ErrorsArrayRaisesRuntimeError ==
    (/\ Listed
     /\ list_response.status = HTTP_OK
     /\ list_response.body.t = "map"
     /\ list_response.body.errors.t = "list") =>
        /\ go_result.exc = "RuntimeError"
        /\ go_result.msg =
             "GraphQL error: " \o
               PyStr(DictGet(list_response.body.errors.message, JStr("Unknown error")))

(***************************************************************************)
(* C13: a transport or application error of the list-offers request is     *)
(* fatal to the run.  get_offers raises it (HTTPError, RuntimeError) and   *)
(* returns no list; main returns 1, and neither clip_all_coupons nor any   *)
(* GetAvailableOffer or ClipCoupon request nor a report or email has       *)
(* happened.                                                               *)
(***************************************************************************)
\* the response is a non-success status, or a success whose body carries
\* GraphQL errors
TransportError == list_response.status # HTTP_OK
ApplicationError ==
    /\ list_response.status = HTTP_OK
    /\ list_response.body.t = "map"
    /\ list_response.body.errors.t = "list"
    /\ list_response.body.errors.n > 0
    /\ list_response.body.errors.first = "map"

C13_ListingErrorIsFatal ==
    (Listed /\ (TransportError \/ ApplicationError)) =>
        /\ go_result.exc = IF TransportError THEN "HTTPError" ELSE "RuntimeError"
        /\ offers = <<>>
        /\ main_pc = "exit"
        /\ exit_code = 1
        /\ cac_pc = "idle"
        /\ pc = "idle"
        /\ \A k \in 1..Len(requests) : requests[k].operationName = "FindOffersForUserV2"
        /\ ~report.logged
        /\ email = "none"

\* a success status with GraphQL errors and, beside them, a listing of one
\* offer: the run is over with exit code 1
C13_Witness ==
    /\ Listed
    /\ ApplicationError
    /\ list_response.body.data.t = "map"
    /\ go_result.exc = "RuntimeError"
    /\ main_pc = "exit"
    /\ exit_code = 1
    /\ Len(requests) = 1

(***************************************************************************)
(* C14: the Offers get_offers returns are in the order of the records of   *)
(* data.userOffersV2.offers: there is a strictly increasing map from the   *)
(* positions of the result to positions of the list such that every Offer  *)
(* is the one parsed from the record at its position's image.              *)
(***************************************************************************)
C14_OrderPreserved ==
    (ListReturned /\ HasRecords) =>
        \E f \in [1..Len(offers) -> 1..Len(Records)] :
            /\ \A j, k \in 1..Len(offers) : j < k => f[j] < f[k]
            /\ \A j \in 1..Len(offers) :
                 /\ ~parse_single_offer(Records[f[j]]).none
                 /\ offers[j] = parse_single_offer(Records[f[j]]).offer

\* two records with different ids, returned in the order of the list
C14_Witness ==
    /\ ListReturned
    /\ HasRecords
    /\ Len(Records) = 2
    /\ Len(offers) = 2
    /\ Records[1].id = JStr("2")
    /\ Records[2].id = JStr("1")
    /\ offers[1].id = "2"
    /\ offers[2].id = "1"

(***************************************************************************)
(* C15: when the body lacks data, data lacks userOffersV2, userOffersV2    *)
(* lacks offers, or the offers list is empty, _parse_offers returns the    *)
(* empty list and raises nothing.                                          *)
(***************************************************************************)
PathAbsentOrEmpty ==
    LET d == list_response.body.data
    IN  \/ d.t = "absent"
        \/ d.t = "map" /\ d.userOffersV2.t = "absent"
        \/ d.t = "map" /\ d.userOffersV2.t = "map" /\ d.userOffersV2.offers.t = "absent"
        \/ HasRecords /\ Records = <<>>

\* _graphql_get returned the decoded body to get_offers
BodyReturned ==
    /\ Listed
    /\ list_response.status = HTTP_OK
    /\ list_response.body.t = "map"
    /\ list_response.body.errors.t = "absent"

C15_AbsentPathGivesEmptyList ==
    (BodyReturned /\ PathAbsentOrEmpty) => (ListReturned /\ offers = <<>>)

\* data is there, userOffersV2 is not
C15_Witness ==
    /\ BodyReturned
    /\ list_response.body.data.t = "map"
    /\ list_response.body.data.userOffersV2.t = "absent"
    /\ ListReturned
    /\ offers = <<>>

(***************************************************************************)
(* C16: a malformed record never aborts the batch.  Whatever the records   *)
(* of the list are, _parse_offers returns, and it returns one Offer for    *)
(* each record that does not yield None and nothing for the others.        *)
(***************************************************************************)
YieldsOffer(raw) == ~parse_single_offer(raw).none

C16_MalformedRecordOmitted ==
    (BodyReturned /\ HasRecords) =>
        /\ ListReturned
        /\ Len(offers) = Cardinality({i \in 1..Len(Records) : YieldsOffer(Records[i])})
        /\ \A i \in 1..Len(Records) :
             YieldsOffer(Records[i]) =>
                \E j \in 1..Len(offers) : offers[j] = parse_single_offer(Records[i]).offer

\* a record that is not a mapping, followed by a well-formed one
C16_Witness ==
    /\ BodyReturned
    /\ HasRecords
    /\ Len(Records) = 2
    /\ Records[1].t # "map"
    /\ Records[2].t = "map"
    /\ Records[2].viewSection.t = "map"
    /\ ListReturned
    /\ Len(offers) = 1
    /\ offers[1].id = Records[2].id.s

(***************************************************************************)
(* C17: a parsed Offer has is_clipped true exactly when the record's       *)
(* viewSection.clippedVariant is the string "true"; the boolean true, the  *)
(* strings "false" and "True", null and an absent field give false.        *)
(* (Stated on the listings all of whose records yield an Offer, where      *)
(* offers[i] comes from Records[i].)                                       *)
(***************************************************************************)
AllParsed == ListReturned /\ HasRecords /\ Len(offers) = Len(Records)

ClippedVariantOf(raw) ==
    IF raw.viewSection.t = "map" THEN raw.viewSection.clippedVariant ELSE Absent

C17_ClippedOnlyForStringTrue ==
    AllParsed =>
        \A i \in 1..Len(Records) :
            offers[i].is_clipped <=> (ClippedVariantOf(Records[i]) = JStr("true"))

\* a record with the boolean true next to one with the string "true"
C17_Witness ==
    /\ AllParsed
    /\ Len(Records) = 2
    /\ ClippedVariantOf(Records[1]) = JBool(TRUE)
    /\ ~offers[1].is_clipped
    /\ ClippedVariantOf(Records[2]) = JStr("true")
    /\ offers[2].is_clipped

(***************************************************************************)
(* C18: a record that is a mapping without a viewSection key always yields *)
(* an Offer: the four identifiers are the values of the top-level keys id, *)
(* offerId, couponId and offerRequestKey ("" for an absent key), name,     *)
(* description and expires_on are "", is_clipped is false and image_url is *)
(* null.                                                                   *)
(***************************************************************************)
NoViewSection(raw) == raw.t = "map" /\ raw.viewSection.t = "absent"
StrOrEmpty(v) == IF v.t = "absent" THEN "" ELSE v.s

C18_NoViewSectionGivesBareOffer ==
    (BodyReturned /\ HasRecords /\ \A i \in 1..Len(Records) : NoViewSection(Records[i])) =>
        /\ ListReturned
        /\ Len(offers) = Len(Records)
        /\ \A i \in 1..Len(Records) :
             offers[i] = [id |-> StrOrEmpty(Records[i].id),
                          offer_id |-> StrOrEmpty(Records[i].offerId),
                          coupon_id |-> StrOrEmpty(Records[i].couponId),
                          offer_request_key |-> StrOrEmpty(Records[i].offerRequestKey),
                          name |-> "", description |-> "", expires_on |-> "",
                          is_clipped |-> FALSE, image_url |-> Null]

\* a record with only id and couponId, and one with no key at all
C18_Witness ==
    /\ ListReturned
    /\ HasRecords
    /\ Len(Records) = 2
    /\ NoViewSection(Records[1])
    /\ Records[1].id = JStr("7")
    /\ Records[1].offerId = Absent
    /\ NoViewSection(Records[2])
    /\ Records[2].id = Absent
    /\ Len(offers) = 2
    /\ offers[1].id = "7"
    /\ offers[1].offer_id = ""
    /\ offers[1].coupon_id = "cpn_7"
    /\ offers[2].id = ""

(***************************************************************************)
(* C19: the description of a parsed Offer is the text of the first section *)
(* without its leading and trailing whitespace when the sections list has  *)
(* an entry, and "" when the list is empty or absent; sections after the   *)
(* first play no part.                                                     *)
(***************************************************************************)
SectionsOf(raw) ==
    IF raw.viewSection.t = "map" /\ raw.viewSection.detailsFormattedAttributesString.t = "map"
    THEN raw.viewSection.detailsFormattedAttributesString.sections
    ELSE SectionsAbsent

\* d is s without its leading and trailing whitespace
IsTrimOf(d, s) ==
    /\ \E a, b \in 0..Len(s) :
         /\ a + b <= Len(s)
         /\ d = SubSeq(s, a + 1, Len(s) - b)
         /\ \A k \in 1..a : SubSeq(s, k, k) \in Whitespace
         /\ \A k \in (Len(s) - b + 1)..Len(s) : SubSeq(s, k, k) \in Whitespace
    /\ Len(d) > 0 =>
         /\ SubSeq(d, 1, 1) \notin Whitespace
         /\ SubSeq(d, Len(d), Len(d)) \notin Whitespace

C19_DescriptionIsFirstSectionTrimmed ==
    AllParsed =>
        \A i \in 1..Len(Records) :
            LET sections == SectionsOf(Records[i])
            IN  IF sections.t = "list" /\ Len(sections.elems) > 0
                THEN IsTrimOf(offers[i].description, StrOrEmpty(sections.elems[1].text))
                ELSE sections.t \in {"absent", "list"} => offers[i].description = ""

\* two sections: the first has surrounding blanks, the second another text
C19_Witness ==
    /\ AllParsed
    /\ Len(Records) = 2
    /\ SectionsOf(Records[1]).t = "list"
    /\ Len(SectionsOf(Records[1]).elems) = 2
    /\ SectionsOf(Records[1]).elems[1].text = JStr("  A  ")
    /\ SectionsOf(Records[1]).elems[2].text = JStr("B")
    /\ offers[1].description = "A"
    /\ SectionsOf(Records[2]) = SectionsList(<<>>)
    /\ offers[2].description = ""

(***************************************************************************)
(* C20: SessionInfo(cookies=..., shop_id=...), without user_name and       *)
(* store_name, returns a session without raising.                          *)
(***************************************************************************)
C20_TwoFieldSessionSucceeds ==
    (session_exc # "unset" /\ session_kwargs = {"cookies", "shop_id"}) =>
        session_exc = "none"

(***************************************************************************)
(* C21: every request goes to the one GraphQL endpoint, names one of the   *)
(* three operations and carries the persisted-query version 1 with the     *)
(* hash registered for that operation.  get_offers sends                   *)
(* FindOffersForUserV2 and nothing else, once; the requests of a           *)
(* clip_coupon call are GetAvailableOffer and ClipCoupon only.             *)
(***************************************************************************)
Operations == {"FindOffersForUserV2", "GetAvailableOffer", "ClipCoupon"}

RegisteredHash(op) ==
    CASE op = "FindOffersForUserV2" ->
            "f26ac1f27a58e191306d8fa6e15d4edd0492a625f0a8bd254310454a82596a8e"
      [] op = "GetAvailableOffer" ->
            "b839689921f13df9ad4424b4cff9820fcbf25dcc5a2f1a73bb0ce5ebf3442720"
      [] op = "ClipCoupon" ->
            "e8f419c92ab3413a7cfd9d219ad6217255479a69451177a5a8b2d0d40fe448f2"
      [] OTHER -> ""

C21_RequestsUseRegisteredOperations ==
    /\ \A k \in 1..Len(requests) :
         /\ requests[k].url = "https://shop.sprouts.com/graphql"
         /\ requests[k].operationName \in Operations
         /\ requests[k].extensions.persistedQuery.version = 1
         /\ requests[k].extensions.persistedQuery.sha256Hash =
                RegisteredHash(requests[k].operationName)
    /\ (go_pc # "idle" /\ pc = "idle" /\ cac_pc \in {"idle", "loop"} /\ cac_i <= 1) =>
         (Len(requests) = 1 /\ requests[1].operationName = "FindOffersForUserV2")
    /\ pc # "idle" =>
         \A k \in 1..Len(requests) :
            requests[k].operationName \in {"GetAvailableOffer", "ClipCoupon"}

\* a run of main that has listed the offers and is through both requests of
\* a clip_coupon call
C21_Witness ==
    /\ main_pc = "clip"
    /\ Listed
    /\ pc = "done"
    /\ Len(requests) = 2
    /\ requests[1].operationName = "GetAvailableOffer"
    /\ requests[2].operationName = "ClipCoupon"

(***************************************************************************)
(* C22: clip_all_coupons attempts every unclipped offer of the list, one   *)
(* at a time and in list order; the failure of one attempt does not keep   *)
(* the later offers from being attempted, and an offer that was clipped at *)
(* entry gets no call and no request.  Hence, when clip_all_coupons is     *)
(* over, the loop has been through every offer: none that is still         *)
(* unclipped lies behind the position the loop has reached.                *)
(***************************************************************************)
LoopOver == cac_pc \in {"done", "raised"}

C22_FailureDoesNotAbortBatch ==
    /\ LoopOver =>
         \A i \in 1..Len(offers) : ~offers[i].is_clipped => i <= cac_i
    /\ (cac_pc = "call" /\ pc # "idle") =>
         (cur = cac_i /\ ~entry_offer.is_clipped)

(***************************************************************************)
(* C23: when clip_all_coupons has finished, an offer is clipped exactly if *)
(* the listing had it clipped or its clip_coupon call returned True; the   *)
(* newly-clipped list holds, in list order, exactly the offers that were   *)
(* unclipped in the listing and whose call returned True; an offer whose   *)
(* call returned False stays unclipped, and the report counts it as        *)
(* available.                                                              *)
(***************************************************************************)
IsMapRecord(raw) == raw.t = "map"
\* the records of the listing that became offers, and what the listing says
\* of each
ListedRecords == SelectSeq(Records, IsMapRecord)
ListedClipped(i) == ListedRecords[i].viewSection.clippedVariant = JStr("true")
NewlyClipped(i) == \E k \in 1..Len(newly_clipped) : newly_clipped[k] = i

C23_FinalFlags ==
    (main_pc \in {"clip", "exit"} /\ cac_pc = "done") =>
        /\ Len(offers) = Len(ListedRecords)
        /\ \A i \in 1..Len(offers) :
             /\ offers[i].is_clipped <=> (ListedClipped(i) \/ NewlyClipped(i))
             /\ NewlyClipped(i) => ~ListedClipped(i)
        /\ \A j, k \in 1..Len(newly_clipped) : j < k => newly_clipped[j] < newly_clipped[k]
        /\ report.logged =>
             /\ report.clipped =
                  Cardinality({i \in 1..Len(offers) : ListedClipped(i) \/ NewlyClipped(i)})
             /\ report.available =
                  Cardinality({i \in 1..Len(offers) : ~ListedClipped(i) /\ ~NewlyClipped(i)})

\* the step in which a clip_coupon call returns to the loop: the offer is
\* appended and marked exactly on a True result, and nothing else changes
C23_ReturnStep ==
    (cac_pc = "call" /\ pc = "done" /\ cac_pc' = "loop") =>
        /\ ret = "True" =>
             /\ newly_clipped' = Append(newly_clipped, cac_i)
             /\ offers' = [offers EXCEPT ![cac_i].is_clipped = TRUE]
        /\ ret = "False" => (newly_clipped' = newly_clipped /\ offers' = offers)

C23_ClippedIffListedOrSucceeded == []C23_FinalFlags /\ [][C23_ReturnStep]_vars

\* two offers listed as unclipped: the first call succeeded, the second
\* failed, and the report has one clipped and one available
C23_Witness ==
    /\ main_pc = "exit"
    /\ exit_code = 0
    /\ cac_pc = "done"
    /\ Len(offers) = 2
    /\ ~ListedClipped(1)
    /\ ~ListedClipped(2)
    /\ newly_clipped = <<1>>
    /\ offers[1].is_clipped
    /\ ~offers[2].is_clipped
    /\ report.logged
    /\ report.clipped = 1
    /\ report.available = 1

(***************************************************************************)
(* C24: within a clip_coupon call on an unclipped offer the requests are   *)
(* GetAvailableOffer, then ClipCoupon; ClipCoupon goes out only after      *)
(* GetAvailableOffer has given a detail result and an item id has been     *)
(* found; neither is sent twice; and the call ends in success (True) or    *)
(* failure (False).                                                        *)
(***************************************************************************)
C24_RequestOrder ==
    pc # "idle" =>
        /\ Len(requests) <= 2
        /\ Len(requests) >= 1 => requests[1].operationName = "GetAvailableOffer"
        /\ Len(requests) = 2 =>
             /\ requests[2].operationName = "ClipCoupon"
             /\ detail_response # NoResponse
             /\ OfferDataTruthy(offer_data)
             /\ Truthy(item_id)

C24_OrderedAndTerminal ==
    /\ C24_RequestOrder
    /\ Returned => ret \in {"True", "False"}

(***************************************************************************)
(* C25: once a clip_coupon call on an offer has returned True, a later     *)
(* clip_coupon call on the same offer returns True without any request.    *)
(* As a step property: when the call that has just returned True is        *)
(* followed by a call on the same offer, that call returns True at once    *)
(* and sends nothing.                                                      *)
(***************************************************************************)
\* a step in which clip_coupon is entered
CallEntry == pc \in {"idle", "done"} /\ pc' \in {"GetAvailableOffer", "done"}
ShortCircuited == pc' = "done" /\ ret' = "True" /\ requests' = <<>>

C25_RepeatStep ==
    (CallEntry /\ pc = "done" /\ ret = "True" /\ cur' = cur) => ShortCircuited

C25_SecondCallShortCircuits == [][C25_RepeatStep]_vars

(***************************************************************************)
(* C25, amended: clip_coupon is idempotent through the is_clipped flag     *)
(* only.  A call returns True at once and without a request exactly when   *)
(* the offer's is_clipped is already true; clip_coupon never sets the      *)
(* flag, a set flag is never cleared, and clip_all_coupons sets it after a *)
(* True result, so that a later call on an offer of its newly-clipped list *)
(* is short-circuited.                                                     *)
(***************************************************************************)
C25_FlagStep ==
    /\ CallEntry => (ShortCircuited <=> offers[cur'].is_clipped)
    /\ \A i \in 1..Len(offers) : offers[i].is_clipped => offers'[i].is_clipped
    /\ (\E i \in 1..Len(offers) : offers'[i].is_clipped /\ ~offers[i].is_clipped) =>
         (cac_pc = "call" /\ ret = "True")

C25_IdempotentOnceMarked ==
    /\ [][C25_FlagStep]_vars
    /\ [](\A k \in 1..Len(newly_clipped) : offers[newly_clipped[k]].is_clipped)

\* after clip_all_coupons, a second call on an offer it has newly clipped
\* has returned True with no request
C25_Witness ==
    /\ cac_pc = "done"
    /\ Len(newly_clipped) > 0
    /\ pc = "done"
    /\ cur = newly_clipped[1]
    /\ ret = "True"
    /\ requests = <<>>

(***************************************************************************)
(* C26: when data, userOffersV2 or offers is present but null, or data or  *)
(* userOffersV2 is not a mapping, or offers cannot be iterated, then       *)
(* _parse_offers raises, and get_offers fails, instead of returning an     *)
(* empty list.                                                             *)
(***************************************************************************)
PathBroken ==
    LET d == list_response.body.data
    IN  \/ d.t \notin {"absent", "map"}
        \/ d.t = "map" /\ d.userOffersV2.t \notin {"absent", "map"}
        \/ d.t = "map" /\ d.userOffersV2.t = "map"
             /\ d.userOffersV2.offers.t \in {"null", "int"}

C26_NullPathRaises ==
    (BodyReturned /\ PathBroken) =>
        (ListRaised /\ go_result.exc \in {"AttributeError", "TypeError"} /\ offers = <<>>)

\* the body {"data": null}
C26_Witness ==
    /\ BodyReturned
    /\ list_response.body.data.t = "null"
    /\ ListRaised
    /\ go_result.exc = "AttributeError"

(***************************************************************************)
(* C27: a record whose viewSection, detailsFormattedAttributesString,      *)
(* first section or first section's text is null yields no Offer and is    *)
(* left out of the result of get_offers, which is then shorter than the    *)
(* server's list; a null offerImage or a null sections still yields an     *)
(* Offer, with image_url null and description "" respectively.             *)
(***************************************************************************)
NullBroken(raw) ==
    LET view == raw.viewSection
        details == view.detailsFormattedAttributesString
        sections == details.sections
    IN  /\ raw.t = "map"
        /\ \/ view.t = "null"
           \/ view.t = "map" /\ details.t = "null"
           \/ /\ view.t = "map"
              /\ details.t = "map"
              /\ sections.t = "list"
              /\ Len(sections.elems) > 0
              /\ \/ sections.elems[1].t = "null"
                 \/ sections.elems[1].t = "map" /\ sections.elems[1].text = Null

NullImage(raw) ==
    /\ raw.t = "map"
    /\ raw.viewSection.t = "map"
    /\ raw.viewSection.offerImage.t = "null"
    /\ raw.viewSection.detailsFormattedAttributesString = GoodDetails

NullSections(raw) ==
    /\ raw.t = "map"
    /\ raw.viewSection.t = "map"
    /\ raw.viewSection.offerImage.t = "absent"
    /\ raw.viewSection.detailsFormattedAttributesString.t = "map"
    /\ raw.viewSection.detailsFormattedAttributesString.sections.t = "null"

C27_NullPartsOfRecord ==
    (BodyReturned /\ HasRecords) =>
        /\ ListReturned
        /\ Len(offers) + Cardinality({i \in 1..Len(Records) : NullBroken(Records[i])})
              <= Len(Records)
        /\ (\A i \in 1..Len(Records) : NullImage(Records[i]) \/ NullSections(Records[i])) =>
              /\ Len(offers) = Len(Records)
              /\ \A i \in 1..Len(Records) :
                   /\ NullImage(Records[i]) => offers[i].image_url = Null
                   /\ NullSections(Records[i]) => offers[i].description = ""

\* a record with a null viewSection is dropped, the record with a null
\* offerImage behind it is kept
C27_Witness ==
    /\ ListReturned
    /\ HasRecords
    /\ Len(Records) = 2
    /\ Records[1].t = "map"
    /\ Records[1].viewSection.t = "null"
    /\ NullImage(Records[2])
    /\ Len(offers) = 1
    /\ offers[1].image_url = Null
    /\ offers[1].description = "Get $2 off"

(***************************************************************************)
(* C28: the itemId of every ClipCoupon request is a non-empty string: the  *)
(* default "000000000001", or the string form of the first item's          *)
(* legacyId, which then is truthy.  A first item whose legacyId is there   *)
(* but falsy ("", 0, null) ends the call with False and without a          *)
(* ClipCoupon request.                                                     *)
(***************************************************************************)
\* the detail response of the call is a success whose data.getAvailableOffer
\* is a mapping with a non-empty items list that starts with a mapping
DetailHasFirstItem ==
    /\ pc # "idle"
    /\ detail_response # NoResponse
    /\ detail_response.status = HTTP_OK
    /\ detail_response.body.t = "map"
    /\ detail_response.body.errors.t = "absent"
    /\ detail_response.body.data.t = "map"
    /\ detail_response.body.data.getAvailableOffer.t = "map"
    /\ detail_response.body.data.getAvailableOffer.items.t = "list"
    /\ Len(detail_response.body.data.getAvailableOffer.items.elems) > 0
    /\ detail_response.body.data.getAvailableOffer.items.elems[1].t = "map"
FirstLegacyId == detail_response.body.data.getAvailableOffer.items.elems[1].legacyId
FalsyLegacyIds == {Null, JStr(""), JInt(0)}

C28_ItemIdNonEmpty ==
    /\ \A k \in 1..Len(requests) :
         IsClipRequest(requests[k]) =>
            /\ requests[k].variables.itemId # ""
            /\ \/ requests[k].variables.itemId = "000000000001"
               \/ /\ DetailHasFirstItem
                  /\ FirstLegacyId \notin FalsyLegacyIds
                  /\ FirstLegacyId.t \in {"str", "int"}
                  /\ requests[k].variables.itemId =
                        (IF FirstLegacyId.t = "str" THEN FirstLegacyId.s
                         ELSE IntToStr(FirstLegacyId.n))
    /\ (DetailHasFirstItem /\ FirstLegacyId \in FalsyLegacyIds) =>
         (Returned /\ ret = "False" /\ NoClipRequest)

\* a first item with legacyId 0
C28_Witness ==
    /\ DetailHasFirstItem
    /\ FirstLegacyId = JInt(0)
    /\ Returned
    /\ ret = "False"
    /\ Len(requests) = 1

(***************************************************************************)
(* C29: a GetAvailableOffer response whose data.getAvailableOffer is an    *)
(* empty object is handled like null: clip_coupon returns False and sends  *)
(* no ClipCoupon request.  The default item id is used only when the       *)
(* detail result is a non-empty object whose items list is empty or        *)
(* absent.                                                                 *)
(***************************************************************************)
\* _graphql_get returned the detail body and its data is a mapping
DetailReturned ==
    /\ pc # "idle"
    /\ detail_response # NoResponse
    /\ detail_response.status = HTTP_OK
    /\ detail_response.body.t = "map"
    /\ detail_response.body.errors.t = "absent"
    /\ detail_response.body.data.t = "map"
DetailResult == detail_response.body.data.getAvailableOffer
\* {} : a mapping without items and without any other key
DetailEmptyObject ==
    /\ DetailReturned
    /\ DetailResult.t = "map"
    /\ DetailResult.items.t = "absent"
    /\ ~DetailResult.other
FallbackUsed ==
    \E k \in 1..Len(requests) :
        IsClipRequest(requests[k]) /\ requests[k].variables.itemId = "000000000001"

C29_EmptyObjectLikeNull ==
    DetailEmptyObject => (Returned /\ ret = "False" /\ NoClipRequest /\ Len(requests) = 1)

C29_FallbackOnlyForEmptyOrAbsentItems ==
    /\ C29_EmptyObjectLikeNull
    /\ FallbackUsed =>
         /\ DetailReturned
         /\ DetailResult.t = "map"
         /\ ~DetailEmptyObject
         /\ \/ DetailResult.items.t = "absent"
            \/ DetailResult.items.t = "list" /\ Len(DetailResult.items.elems) = 0

(***************************************************************************)
(* C29, amended: the empty object is handled like null, and the default    *)
(* item id is used only when the detail result is a non-empty object whose *)
(* items value is absent or falsy: an empty list, null, or the number 0.   *)
(***************************************************************************)
C29_FallbackOnlyForFalsyItems ==
    /\ C29_EmptyObjectLikeNull
    /\ FallbackUsed =>
         /\ DetailReturned
         /\ DetailResult.t = "map"
         /\ ~DetailEmptyObject
         /\ \/ DetailResult.items.t \in {"absent", "null"}
            \/ DetailResult.items.t = "list" /\ Len(DetailResult.items.elems) = 0
            \/ DetailResult.items.t = "int" /\ DetailResult.items.n = 0

\* the detail result {} has ended the call with False after one request
C29_Witness ==
    /\ DetailEmptyObject
    /\ Returned
    /\ ret = "False"
    /\ Len(requests) = 1
    /\ offer_data = OfferDataNone

(***************************************************************************)
(* C30: when login and listing have succeeded, main logs the report and    *)
(* returns 0, however many clip attempts failed and whether or not the     *)
(* email went out.                                                         *)
(***************************************************************************)
C30_ExitZeroAfterListing ==
    (main_pc = "exit" /\ session_exc = "none" /\ ListReturned) =>
        /\ exit_code = 0
        /\ report.logged
        /\ report.total = Len(offers)

====
